---- MODULE Spec2Model ----
(***************************************************************************)
(* Model download manager of custom_nodes/bagel/bagel_model_downloader.py. *)
(*                                                                         *)
(* Strings (URLs, filenames, model types, paths) are sequences of          *)
(* one-character strings, so that startswith, splitext, lower, strip and   *)
(* the substring test work on the characters as the Python code does.      *)
(*                                                                         *)
(* Sizes are counted in units of chunk_size (1 MiB, line 179): TLC's       *)
(* integers are 32 bits wide and 50 GiB in bytes does not fit.  Every      *)
(* chunk the stream yields is one full unit.                               *)
(*                                                                         *)
(* download_model is an asyncio coroutine and the three handlers run on    *)
(* the same event loop, so the code between two awaits runs without        *)
(* interleaving.  One action models one such block; a task's position is   *)
(* the await it is suspended at.                                           *)
(*                                                                         *)
(* The environment decides what each I/O call does: os.makedirs, the GET,  *)
(* mkstemp, a chunk read, f.write and shutil.move may raise.  os.unlink of *)
(* an existing file succeeds; it raises when the file is no longer there   *)
(* (/tmp is shared with the rest of the host).                             *)
(***************************************************************************)
EXTENDS Integers, Sequences, FiniteSets, TLC

VARIABLES
    active_downloads,      \* ModelDownloadManager.active_downloads: id -> DownloadInfo
    download_tasks,        \* ModelDownloadManager.download_tasks: id -> frame of the task
    tmp_files,             \* files of /tmp created by mkstemp: task id -> units written
    files,                 \* files of the model directories: path -> content
    request                \* the request under test of the validation specification
                           \* and the status code of its reply (None: not handled yet)

vars == <<active_downloads, download_tasks, tmp_files, files, request>>

----------------------------------------------------------------------------
(* Bounds of the model.                                                    *)

\* Records the registry may hold.
MaxDownloads == 1

\* Chunks one response body may deliver.
MaxChunks == 2

\* Length of the filenames enumerated exhaustively for the validator.
MaxNameLen == 5

----------------------------------------------------------------------------
(* Program constants.                                                      *)

HUGGINGFACE == <<"h", "t", "t", "p", "s", ":", "/", "/", "h", "u", "g", "g", "i", "n", "g", "f", "a", "c", "e", ".", "c", "o", "/">>

CIVITAI == <<"h", "t", "t", "p", "s", ":", "/", "/", "c", "i", "v", "i", "t", "a", "i", ".", "c", "o", "m", "/">>

GITHUB_RAW == <<"h", "t", "t", "p", "s", ":", "/", "/", "r", "a", "w", ".", "g", "i", "t", "h", "u", "b", "u", "s", "e", "r", "c", "o", "n", "t", "e", "n", "t", ".", "c", "o", "m", "/">>

ALLOWED_MODEL_SOURCES == <<HUGGINGFACE, CIVITAI, GITHUB_RAW>>

ALLOWED_EXTENSIONS ==
    { <<".", "s", "a", "f", "e", "t", "e", "n", "s", "o", "r", "s">>,
      <<".", "s", "f", "t">>,
      <<".", "c", "k", "p", "t">>,
      <<".", "p", "t">>,
      <<".", "p", "t", "h">>,
      <<".", "b", "i", "n">>,
      <<".", "o", "n", "n", "x">>,
      <<".", "y", "a", "m", "l">>,
      <<".", "j", "s", "o", "n">> }

\* 50 GiB, in units of 1 MiB.
MAX_MODEL_SIZE_BYTES == 50 * 1024

\* Python's None (download ids are 1, 2, ...).
None == 0

\* The empty str.
EmptyStr == << >>

\* folder_paths.folder_names_and_paths of the host: model type -> first directory.
TypeLoras == <<"l", "o", "r", "a", "s">>

TypeBogus == <<"b", "o", "g", "u", "s">>

DirLoras == <<"/", "m", "/", "l">>

folder_names_and_paths == (TypeLoras :> DirLoras)

----------------------------------------------------------------------------
(* str and os.path operations, on sequences of characters.                 *)

\* str.startswith
StartsWith(s, prefix) ==
    /\ Len(s) >= Len(prefix)
    /\ SubSeq(s, 1, Len(prefix)) = prefix

\* sub in s
Contains(s, sub) ==
    \E i \in 1..(Len(s) - Len(sub) + 1) : SubSeq(s, i, i + Len(sub) - 1) = sub

\* s[:n]
Take(s, n) == SubSeq(s, 1, IF Len(s) < n THEN Len(s) ELSE n)

\* str.rfind for a single character, 1-based; 0 when absent (Python: -1).
RFind(s, c) ==
    LET hits == {i \in 1..Len(s) : s[i] = c}
    IN  IF hits = {} THEN 0 ELSE CHOOSE i \in hits : \A j \in hits : j <= i

\* str.lower, on the letters the inputs use.
LowerChar(c) ==
    CASE c = "P" -> "p"
      [] c = "T" -> "t"
      [] c = "S" -> "s"
      [] c = "M" -> "m"
      [] c = "H" -> "h"
      [] OTHER -> c

Lower(s) == [i \in 1..Len(s) |-> LowerChar(s[i])]

\* str.lstrip and str.rstrip: leading, trailing whitespace removed.
RECURSIVE LStrip(_)
LStrip(s) == IF s # EmptyStr /\ Head(s) = " " THEN LStrip(Tail(s)) ELSE s

RECURSIVE RStrip(_)
RStrip(s) ==
    IF s # EmptyStr /\ s[Len(s)] = " " THEN RStrip(SubSeq(s, 1, Len(s) - 1)) ELSE s

\* str.strip
Strip(s) == RStrip(LStrip(s))

\* os.path.splitext(p)[1] (genericpath._splitext with sep "/" and extsep "."):
\* the text from the last dot of the last path component, provided some
\* character of that component before the dot is not a dot.
SplitExt(p) ==
    LET sepIndex == RFind(p, "/")
        dotIndex == RFind(p, ".")
    IN  IF /\ dotIndex > sepIndex
           /\ \E k \in (sepIndex + 1)..(dotIndex - 1) : p[k] # "."
        THEN SubSeq(p, dotIndex, Len(p))
        ELSE EmptyStr

\* os.path.join(a, b) of posixpath.
PathJoin(a, b) ==
    IF StartsWith(b, <<"/">>) THEN b
    ELSE IF a = EmptyStr \/ a[Len(a)] = "/" THEN a \o b
    ELSE a \o <<"/">> \o b

----------------------------------------------------------------------------
(* validate_model_url                                                      *)

ReasonSource == "Download blocked: URL source not allowed."

ReasonFileType == "Download blocked: File type not allowed."

ReasonFilename == "Download blocked: Invalid filename (path traversal detected)"

\* The (is_valid, error_message) pair; got is the text the message quotes.
Verdict(ok, msg, got) == [is_valid |-> ok, error_message |-> msg, got |-> got]

\* validate_model_url testing "source in url" in place of url.startswith.
validate_model_url_SourceAnywhere(url, filename) ==
    LET ext == Lower(SplitExt(filename))
    IN  IF ~ \E i \in 1..Len(ALLOWED_MODEL_SOURCES) :
                 Contains(url, ALLOWED_MODEL_SOURCES[i])
        THEN Verdict(FALSE, ReasonSource, Take(url, 100))
        ELSE IF ext \notin ALLOWED_EXTENSIONS
        THEN Verdict(FALSE, ReasonFileType, ext)
        ELSE IF Contains(filename, <<".", ".">>) \/ StartsWith(filename, <<"/">>)
        THEN Verdict(FALSE, ReasonFilename, EmptyStr)
        ELSE Verdict(TRUE, "", EmptyStr)

\* validate_model_url rejecting only a leading "../" and a leading "/".
validate_model_url_LeadingOnly(url, filename) ==
    LET ext == Lower(SplitExt(filename))
    IN  IF ~ \E i \in 1..Len(ALLOWED_MODEL_SOURCES) :
                 StartsWith(url, ALLOWED_MODEL_SOURCES[i])
        THEN Verdict(FALSE, ReasonSource, Take(url, 100))
        ELSE IF ext \notin ALLOWED_EXTENSIONS
        THEN Verdict(FALSE, ReasonFileType, ext)
        ELSE IF StartsWith(filename, <<".", ".", "/">>) \/ StartsWith(filename, <<"/">>)
        THEN Verdict(FALSE, ReasonFilename, EmptyStr)
        ELSE Verdict(TRUE, "", EmptyStr)

\* validate_model_url without .lower() on the extension.
validate_model_url_CaseSensitive(url, filename) ==
    LET ext == SplitExt(filename)
    IN  IF ~ \E i \in 1..Len(ALLOWED_MODEL_SOURCES) :
                 StartsWith(url, ALLOWED_MODEL_SOURCES[i])
        THEN Verdict(FALSE, ReasonSource, Take(url, 100))
        ELSE IF ext \notin ALLOWED_EXTENSIONS
        THEN Verdict(FALSE, ReasonFileType, ext)
        ELSE IF Contains(filename, <<".", ".">>) \/ StartsWith(filename, <<"/">>)
        THEN Verdict(FALSE, ReasonFilename, EmptyStr)
        ELSE Verdict(TRUE, "", EmptyStr)

\* validate_model_url testing the filename before the extension.
validate_model_url_FilenameFirst(url, filename) ==
    LET ext == Lower(SplitExt(filename))
    IN  IF ~ \E i \in 1..Len(ALLOWED_MODEL_SOURCES) :
                 StartsWith(url, ALLOWED_MODEL_SOURCES[i])
        THEN Verdict(FALSE, ReasonSource, Take(url, 100))
        ELSE IF Contains(filename, <<".", ".">>) \/ StartsWith(filename, <<"/">>)
        THEN Verdict(FALSE, ReasonFilename, EmptyStr)
        ELSE IF ext \notin ALLOWED_EXTENSIONS
        THEN Verdict(FALSE, ReasonFileType, ext)
        ELSE Verdict(TRUE, "", EmptyStr)

validate_model_url(url, filename) ==
    LET ext == Lower(SplitExt(filename))
    IN  IF ~ \E i \in 1..Len(ALLOWED_MODEL_SOURCES) :
                 StartsWith(url, ALLOWED_MODEL_SOURCES[i])
        THEN Verdict(FALSE, ReasonSource, Take(url, 100))
        ELSE IF ext \notin ALLOWED_EXTENSIONS
        THEN Verdict(FALSE, ReasonFileType, ext)
        ELSE IF Contains(filename, <<".", ".">>) \/ StartsWith(filename, <<"/">>)
        THEN Verdict(FALSE, ReasonFilename, EmptyStr)
        ELSE Verdict(TRUE, "", EmptyStr)

----------------------------------------------------------------------------
(* DownloadInfo and the manager's data.                                    *)

\* datetime.utcnow().isoformat(): some non-empty text.
Timestamp == "utcnow"

\* request.headers.get('X-Comfy-User', 'anonymous')
UserId == "anonymous"

RECURSIVE Gcd(_, _)
Gcd(a, b) == IF b = 0 THEN a ELSE Gcd(b, a % b)

\* progress_percent is a float; the model keeps the exact fraction n/d in
\* lowest terms, so equal values are equal pairs.
Fraction(n, d) == LET g == Gcd(n, d) IN [n |-> n \div g, d |-> d \div g]

Percent(p) == Fraction(p, 1)

PctLeq(a, b) == a.n * b.d <= b.n * a.d

\* a - b >= p
PctAhead(a, b, p) == a.n * b.d - b.n * a.d >= p * a.d * b.d

\* progress_bytes / total_bytes * 100
ProgressPercent(progress_bytes, total_bytes) ==
    Fraction(progress_bytes * 100, total_bytes)

Ids == DOMAIN active_downloads

TerminalStatus == {"completed", "failed", "cancelled"}

\* A record created as if its task had already begun to run.
create_download_Eager(download_id, user_id, url, model_type, filename) ==
    [ download_id      |-> download_id,
      user_id          |-> user_id,
      url              |-> url,
      model_type       |-> model_type,
      filename         |-> filename,
      destination_path |-> PathJoin(folder_names_and_paths[model_type], filename),
      status           |-> "downloading",
      progress_bytes   |-> 0,
      total_bytes      |-> 0,
      progress_percent |-> Percent(0),
      started_at       |-> Timestamp,
      completed_at     |-> "",
      error_message    |-> "",
      cancel_requested |-> FALSE ]

\* ModelDownloadManager.create_download: the record stored under download_id.
create_download(download_id, user_id, url, model_type, filename) ==
    [ download_id      |-> download_id,
      user_id          |-> user_id,
      url              |-> url,
      model_type       |-> model_type,
      filename         |-> filename,
      destination_path |-> PathJoin(folder_names_and_paths[model_type], filename),
      status           |-> "pending",
      progress_bytes   |-> 0,
      total_bytes      |-> 0,
      progress_percent |-> Percent(0),
      started_at       |-> Timestamp,
      completed_at     |-> "",
      error_message    |-> "",
      cancel_requested |-> FALSE ]

\* An id generator that hands out the same id again.
Uuid4_Reused == IF Ids = {} THEN 1 ELSE CHOOSE id \in Ids : TRUE

\* uuid.uuid4(): an id no record has.
Uuid4 == Cardinality(Ids) + 1

\* A handler's reply: HTTP status and JSON body.
Reply(code, body) == [code |-> code, body |-> body]

\* A file of a model directory: who wrote it (None: it was there before the
\* manager started), how many units, and whether the copy stopped part-way.
FileContent(writer, size, partial) ==
    [writer |-> writer, size |-> size, partial |-> partial]

\* The frame of a download_model task: the await it is suspended at, its
\* local last_progress_percent, and the exception in flight ("": none).
Frame(at, last, raised) ==
    [at |-> at, last_progress_percent |-> last, raised |-> raised]

\* asyncio.create_task(download_model(id)), line 351: created, not yet run.
Spawned == Frame("spawned", Percent(0), "")

Remove(f, k) == [x \in (DOMAIN f) \ {k} |-> f[x]]

Put(f, k, v) == (k :> v) @@ f

----------------------------------------------------------------------------
(* Request handlers.  A handler runs from its request to its reply without *)
(* an await that another task could use (request.json() is awaited before  *)
(* anything is read), so each is one action.  What it returns is an        *)
(* operator of the state it is called in.                                  *)

\* The branch taken without the os.path.exists test of line 338.
StartBranch_NoExistsCheck(url, model_type, filename) ==
    IF url = EmptyStr \/ model_type = EmptyStr \/ filename = EmptyStr
    THEN "missing_fields"
    ELSE IF model_type \notin DOMAIN folder_names_and_paths
    THEN "invalid_model_type"
    ELSE IF ~ validate_model_url(url, filename).is_valid
    THEN "blocked"
    ELSE "created"

\* handle_download_model, lines 308-348: the branch the handler takes.
StartBranch(url, model_type, filename) ==
    IF url = EmptyStr \/ model_type = EmptyStr \/ filename = EmptyStr
    THEN "missing_fields"
    ELSE IF model_type \notin DOMAIN folder_names_and_paths
    THEN "invalid_model_type"
    ELSE IF ~ validate_model_url(url, filename).is_valid
    THEN "blocked"
    ELSE IF PathJoin(folder_names_and_paths[model_type], filename) \in DOMAIN files
    THEN "already_exists"
    ELSE "created"

\* handle_download_model: the reply to POST /bagel/models/download.
handle_download_model_reply(raw_url, raw_model_type, raw_filename) ==
    LET url        == Strip(raw_url)
        model_type == Strip(raw_model_type)
        filename   == Strip(raw_filename)
        branch     == StartBranch(url, model_type, filename)
        verdict    == validate_model_url(url, filename)
        download   == create_download(Uuid4, UserId, url, model_type, filename)
    IN  CASE branch = "missing_fields" ->
                 Reply(400, [error |-> "Missing required fields: url, model_type, filename"])
          [] branch = "invalid_model_type" ->
                 Reply(400, [error |-> "Invalid model_type", got |-> model_type,
                             valid_types |-> DOMAIN folder_names_and_paths])
          [] branch = "blocked" ->
                 Reply(403, [error |-> verdict.error_message, got |-> verdict.got])
          [] branch = "already_exists" ->
                 Reply(200, [download_id |-> None,
                             status |-> "already_exists",
                             message |-> "Model already exists",
                             destination_path |-> download.destination_path])
          [] OTHER ->
                 Reply(200, [download_id |-> download.download_id,
                             status |-> download.status,
                             destination_path |-> download.destination_path,
                             filename |-> filename,
                             model_type |-> model_type])

\* handle_download_model: what POST /bagel/models/download does to the manager
\* and the file system (lines 347-352: the record is stored and its task
\* created, not yet run).
handle_download_model(raw_url, raw_model_type, raw_filename) ==
    LET url        == Strip(raw_url)
        model_type == Strip(raw_model_type)
        filename   == Strip(raw_filename)
        download   == create_download(Uuid4, UserId, url, model_type, filename)
    IN  IF StartBranch(url, model_type, filename) = "created"
        THEN /\ active_downloads' = Put(active_downloads, download.download_id, download)
             /\ download_tasks' = Put(download_tasks, download.download_id, Spawned)
             /\ UNCHANGED <<tmp_files, files>>
        ELSE UNCHANGED <<active_downloads, download_tasks, tmp_files, files>>

\* A status reply that reports the progress the record had when created.
handle_download_status_reply_Stale(download_id) ==
    IF download_id \in Ids
    THEN Reply(200, [active_downloads[download_id] EXCEPT
                        !.progress_bytes = 0, !.progress_percent = Percent(0)])
    ELSE Reply(404, [error |-> "Download not found"])

\* handle_download_status: the reply to GET .../{download_id}/status.
handle_download_status_reply(download_id) ==
    IF download_id \in Ids
    THEN Reply(200, active_downloads[download_id])
    ELSE Reply(404, [error |-> "Download not found"])

\* handle_download_status reads the record and changes nothing.
handle_download_status(download_id) == UNCHANGED vars

\* cancel_download accepting a known record in any status.
cancel_download_AnyStatus(download_id) == download_id \in Ids

\* ModelDownloadManager.cancel_download: its return value.
cancel_download(download_id) ==
    /\ download_id \in Ids
    /\ active_downloads[download_id].status = "downloading"

\* handle_cancel_download: the reply to POST .../{download_id}/cancel.
handle_cancel_download_reply(download_id) ==
    IF cancel_download(download_id)
    THEN Reply(200, [success |-> TRUE, message |-> "Download cancellation requested"])
    ELSE Reply(404, [success |-> FALSE,
                     message |-> "Download not found or already completed"])

\* A cancel request that ends the download itself instead of asking the task.
handle_cancel_download_Preemptive(download_id) ==
    /\ active_downloads' =
           IF cancel_download(download_id)
           THEN [active_downloads EXCEPT ![download_id].cancel_requested = TRUE,
                                         ![download_id].status = "cancelled",
                                         ![download_id].completed_at = Timestamp]
           ELSE active_downloads
    /\ UNCHANGED <<download_tasks, tmp_files, files, request>>

\* handle_cancel_download: cancel_download sets the flag when it returns True.
handle_cancel_download(download_id) ==
    /\ active_downloads' =
           IF cancel_download(download_id)
           THEN [active_downloads EXCEPT ![download_id].cancel_requested = TRUE]
           ELSE active_downloads
    /\ UNCHANGED <<download_tasks, tmp_files, files, request>>

----------------------------------------------------------------------------
(* download_model: the task of one download.  Positions of a task:         *)
(*   spawned         created by asyncio.create_task, not yet run           *)
(*   get             awaiting session.get (line 156)                       *)
(*   iter            awaiting the next chunk (line 183)                    *)
(*   send_progress   awaiting send_progress_update (line 211)              *)
(*   send_cancelled  awaiting send_progress_update (line 190)              *)
(*   send_completed  awaiting send_progress_update (line 232)              *)
(*   raised          an exception raised inside the session is leaving the *)
(*                   async with blocks of lines 155-156, whose exits await *)
(*   send_failed     awaiting send_progress_update (line 240)              *)
(*   done            returned                                              *)
(***************************************************************************)

\* The outer handler, lines 234-237: what it assigns to the record.
Failed(download, e) ==
    [download EXCEPT !.status = "failed",
                     !.error_message = e,
                     !.completed_at = Timestamp]

\* Lines 186-187.
Cancelled(download) ==
    [download EXCEPT !.status = "cancelled", !.completed_at = Timestamp]

\* Lines 221-223.
Completed(download) ==
    [download EXCEPT !.status = "completed",
                     !.progress_percent = Percent(100),
                     !.completed_at = Timestamp]

\* Lines 194-200: the record after a chunk was written.
Progressed(download) ==
    LET bytes == download.progress_bytes + 1
    IN  [download EXCEPT
            !.progress_bytes = bytes,
            !.progress_percent =
                IF download.total_bytes > 0
                THEN ProgressPercent(bytes, download.total_bytes)
                ELSE @]

\* Line 203: is a progress update due?
UpdateDue(download, last) ==
    /\ download.total_bytes > 0
    /\ PctAhead(download.progress_percent, last, 5)

\* A cleanup that leaves the temp file where it is.
CleanedUp_Leaks(tmp, download_id) == tmp

\* The temp file is gone: unlinked by line 188, or by the inner handler
\* (lines 215-219) if it still exists.
CleanedUp(tmp, download_id) == Remove(tmp, download_id)

\* The task moves to another await.
At(frame, at) == [frame EXCEPT !.at = at]

\* An exception starts to propagate.
Raised(frame, e) == [frame EXCEPT !.at = "raised", !.raised = e]

\* Lines 142-156: the task starts running, up to the await of session.get.
\* makedirs_ok: os.makedirs returned; when it raises (line 152, outside the
\* session) the outer handler runs at once.
TaskStart(id, makedirs_ok) ==
    /\ download_tasks[id].at = "spawned"
    /\ LET download == [active_downloads[id] EXCEPT !.status = "downloading"]
       IN  IF makedirs_ok
           THEN /\ active_downloads' = [active_downloads EXCEPT ![id] = download]
                /\ download_tasks' = [download_tasks EXCEPT ![id] = At(@, "get")]
           ELSE /\ active_downloads' =
                       [active_downloads EXCEPT ![id] = Failed(download, "OSError")]
                /\ download_tasks' = [download_tasks EXCEPT ![id] = At(@, "send_failed")]
    /\ UNCHANGED <<tmp_files, files, request>>

\* Line 156 raises: the connection failed.
GetRaises(id) ==
    /\ download_tasks[id].at = "get"
    /\ download_tasks' =
           [download_tasks EXCEPT ![id] = Raised(@, "ClientConnectorError")]
    /\ UNCHANGED <<active_downloads, tmp_files, files, request>>

\* Line 158: f"HTTP {response.status}: {response.reason}"
HttpError(status) ==
    IF status = 404 THEN "HTTP 404: Not Found"
    ELSE "HTTP 500: Internal Server Error"

\* A size test that lets every declared size through.
TooLarge_Unlimited(total_bytes) == FALSE

\* Line 164: the declared size is over the limit.
TooLarge(total_bytes) == total_bytes > MAX_MODEL_SIZE_BYTES

\* A task that streams the body of whatever response arrives, without the
\* status test of line 157.
GetResponse_IgnoresStatus(id, status, content_length, mkstemp_ok) ==
    /\ download_tasks[id].at = "get"
    /\ active_downloads' =
           [active_downloads EXCEPT ![id].total_bytes = content_length]
    /\ tmp_files' = Put(tmp_files, id, 0)
    /\ download_tasks' = [download_tasks EXCEPT ![id] = Frame("iter", Percent(0), "")]
    /\ UNCHANGED <<files, request>>

\* Lines 157-179: the response arrived.  status: its HTTP status;
\* content_length: int(headers.get('Content-Length', 0)); mkstemp_ok:
\* tempfile.mkstemp returned (else it raised).
GetResponse(id, status, content_length, mkstemp_ok) ==
    /\ download_tasks[id].at = "get"
    /\ LET sized == [active_downloads[id] EXCEPT !.total_bytes = content_length]
       IN  IF status # 200
           THEN /\ download_tasks' =
                       [download_tasks EXCEPT ![id] = Raised(@, HttpError(status))]
                /\ UNCHANGED <<active_downloads, tmp_files>>
           ELSE IF TooLarge(sized.total_bytes)
           THEN /\ active_downloads' = [active_downloads EXCEPT ![id] = sized]
                /\ download_tasks' =
                       [download_tasks EXCEPT ![id] = Raised(@, "Model too large")]
                /\ UNCHANGED tmp_files
           ELSE IF ~ mkstemp_ok
           THEN /\ active_downloads' = [active_downloads EXCEPT ![id] = sized]
                /\ download_tasks' = [download_tasks EXCEPT ![id] = Raised(@, "OSError")]
                /\ UNCHANGED tmp_files
           ELSE /\ active_downloads' = [active_downloads EXCEPT ![id] = sized]
                /\ tmp_files' = Put(tmp_files, id, 0)
                /\ download_tasks' =
                       [download_tasks EXCEPT ![id] = Frame("iter", Percent(0), "")]
    /\ UNCHANGED <<files, request>>

\* A task that never looks at the flag.
CancelObserved_Never(download) == FALSE

\* Line 185: the cancellation test at the top of the loop body.
CancelObserved(download) == download.cancel_requested

\* Lines 183-211: the stream yields a chunk.  write_ok: f.write returned;
\* unlink_ok: os.unlink of line 188 returned (else it raised: the file was no
\* longer there, and the inner handler finds nothing to remove).
Chunk(id, write_ok, unlink_ok) ==
    /\ download_tasks[id].at = "iter"
    /\ active_downloads[id].progress_bytes < MaxChunks
    /\ LET download == active_downloads[id]
           written  == Progressed(download)
           due      == UpdateDue(written, download_tasks[id].last_progress_percent)
       IN  IF CancelObserved(download)
           THEN /\ active_downloads' =
                       [active_downloads EXCEPT ![id] = Cancelled(download)]
                /\ tmp_files' = CleanedUp(tmp_files, id)
                /\ download_tasks' =
                       [download_tasks EXCEPT ![id] =
                           IF unlink_ok THEN At(@, "send_cancelled")
                           ELSE Raised(@, "FileNotFoundError")]
           ELSE IF write_ok
           THEN /\ active_downloads' = [active_downloads EXCEPT ![id] = written]
                /\ tmp_files' = [tmp_files EXCEPT ![id] = @ + 1]
                /\ download_tasks' =
                       [download_tasks EXCEPT ![id] =
                           IF due
                           THEN Frame("send_progress", written.progress_percent, "")
                           ELSE @]
           ELSE /\ tmp_files' = CleanedUp(tmp_files, id)
                /\ download_tasks' = [download_tasks EXCEPT ![id] = Raised(@, "OSError")]
                /\ UNCHANGED active_downloads
    /\ UNCHANGED <<files, request>>

\* Line 183 raises: the connection broke while reading the body.
ReadRaises(id) ==
    /\ download_tasks[id].at = "iter"
    /\ tmp_files' = CleanedUp(tmp_files, id)
    /\ download_tasks' =
           [download_tasks EXCEPT ![id] = Raised(@, "ClientPayloadError")]
    /\ UNCHANGED <<active_downloads, files, request>>

\* shutil.move(temp_local_path, destination_path), line 214, across file
\* systems: copy to the destination, then unlink the source.
\*   "moved"    the copy and the unlink succeeded
\*   "refused"  it raised before the destination was opened
\*   "partial"  the copy raised part-way: the destination holds the units
\*              copied so far
MoveOutcomes == {"moved", "refused", "partial"}

\* The model directories after the move of a temp file of size units.
Moved(fs, download, size, outcome, copied) ==
    CASE outcome = "moved" ->
             Put(fs, download.destination_path,
                 FileContent(download.download_id, size, FALSE))
      [] outcome = "partial" ->
             Put(fs, download.destination_path,
                 FileContent(download.download_id, copied, TRUE))
      [] OTHER -> fs

\* Lines 183, 213-223: the body is exhausted; the file is closed and moved.
EndOfBody(id, outcome, copied) ==
    /\ download_tasks[id].at = "iter"
    /\ IF outcome = "partial" THEN copied < tmp_files[id] ELSE copied = 0
    /\ LET download == active_downloads[id]
       IN  /\ files' = Moved(files, download, tmp_files[id], outcome, copied)
           /\ active_downloads' =
                  IF outcome = "moved"
                  THEN [active_downloads EXCEPT ![id] = Completed(download)]
                  ELSE active_downloads
           /\ tmp_files' = IF outcome = "moved" THEN Remove(tmp_files, id)
                           ELSE CleanedUp(tmp_files, id)
           /\ download_tasks' =
                  [download_tasks EXCEPT ![id] =
                      IF outcome = "moved" THEN At(@, "send_completed")
                      ELSE Raised(@, "OSError")]
    /\ UNCHANGED request

\* An outer handler that fetches again instead of recording the failure.
Except_Retries(id) ==
    /\ download_tasks[id].at = "raised"
    /\ download_tasks' = [download_tasks EXCEPT ![id] = At(@, "get")]
    /\ UNCHANGED <<active_downloads, tmp_files, files, request>>

\* Lines 234-240: the exception reaches the outer handler.
Except(id) ==
    /\ download_tasks[id].at = "raised"
    /\ active_downloads' =
           [active_downloads EXCEPT ![id] = Failed(@, download_tasks[id].raised)]
    /\ download_tasks' = [download_tasks EXCEPT ![id] = At(@, "send_failed")]
    /\ UNCHANGED <<tmp_files, files, request>>

\* Lines 243-245: the outer handler's cleanup removes destination_path + ".tmp".
OuterCleanup(fs, download) ==
    Remove(fs, download.destination_path \o <<".", "t", "m", "p">>)

\* A send whose failure is raised into the task instead of being logged.
SendReturns_Propagates(id, delivered) ==
    /\ download_tasks[id].at \in
           {"send_progress", "send_cancelled", "send_completed", "send_failed"}
    /\ download_tasks' =
           [download_tasks EXCEPT ![id] =
               IF ~ delivered THEN Raised(@, "ConnectionResetError")
               ELSE At(@, IF download_tasks[id].at = "send_progress" THEN "iter" ELSE "done")]
    /\ tmp_files' = IF delivered THEN tmp_files ELSE CleanedUp(tmp_files, id)
    /\ files' = IF delivered /\ download_tasks[id].at = "send_failed"
                THEN OuterCleanup(files, active_downloads[id])
                ELSE files
    /\ UNCHANGED <<active_downloads, request>>

\* send_progress_update returned (lines 126-133: a failed send is logged and
\* swallowed, and without a prompt_server nothing is sent), and the task runs
\* on to its next await or to its end.  delivered: the send reached the
\* clients.
SendReturns(id, delivered) ==
    /\ download_tasks[id].at \in
           {"send_progress", "send_cancelled", "send_completed", "send_failed"}
    /\ download_tasks' =
           [download_tasks EXCEPT ![id] =
               At(@, IF download_tasks[id].at = "send_progress" THEN "iter" ELSE "done")]
    /\ files' = IF download_tasks[id].at = "send_failed"
                THEN OuterCleanup(files, active_downloads[id])
                ELSE files
    /\ UNCHANGED <<active_downloads, tmp_files, request>>
----------------------------------------------------------------------------
(* The requests and the environment's answers the specifications draw.     *)

UrlHuggingFace == <<"h", "t", "t", "p", "s", ":", "/", "/", "h", "u", "g", "g", "i", "n", "g", "f", "a", "c", "e", ".", "c", "o", "/", "m">>

UrlCivitai == <<"h", "t", "t", "p", "s", ":", "/", "/", "c", "i", "v", "i", "t", "a", "i", ".", "c", "o", "m", "/", "m">>

UrlGithub == <<"h", "t", "t", "p", "s", ":", "/", "/", "r", "a", "w", ".", "g", "i", "t", "h", "u", "b", "u", "s", "e", "r", "c", "o", "n", "t", "e", "n", "t", ".", "c", "o", "m", "/", "m">>

UrlEvil == <<"h", "t", "t", "p", "s", ":", "/", "/", "e", "v", "i", "l", ".", "e", "x", "a", "m", "p", "l", "e", ".", "c", "o", "m", "/", "m", "o", "d", "e", "l", ".", "s", "a", "f", "e", "t", "e", "n", "s", "o", "r", "s">>

UrlPlainHttp == <<"h", "t", "t", "p", ":", "/", "/", "h", "u", "g", "g", "i", "n", "g", "f", "a", "c", "e", ".", "c", "o", "/", "m">>

UrlLookalike == <<"h", "t", "t", "p", "s", ":", "/", "/", "h", "u", "g", "g", "i", "n", "g", "f", "a", "c", "e", ".", "c", "o", ".", "e", "v", "i", "l", ".", "i", "o", "/", "m">>

UrlUpper == <<"H", "T", "T", "P", "S", ":", "/", "/", "h", "u", "g", "g", "i", "n", "g", "f", "a", "c", "e", ".", "c", "o", "/", "m">>

UrlPadded == <<" ", "h", "t", "t", "p", "s", ":", "/", "/", "c", "i", "v", "i", "t", "a", "i", ".", "c", "o", "m", "/", "m">>

UrlEmbedded == <<"h", "t", "t", "p", ":", "/", "/", "e", ".", "i", "o", "/", "?", "h", "t", "t", "p", "s", ":", "/", "/", "c", "i", "v", "i", "t", "a", "i", ".", "c", "o", "m", "/", "m">>

NameSafetensors == <<"m", "o", "d", "e", "l", ".", "s", "a", "f", "e", "t", "e", "n", "s", "o", "r", "s">>

NameMixedCase == <<"M", "o", "d", "e", "l", ".", "S", "a", "f", "e", "T", "e", "n", "s", "o", "r", "s">>

NamePasswd == <<".", ".", "/", ".", ".", "/", "e", "t", "c", "/", "p", "a", "s", "s", "w", "d">>

NameTraversalPt == <<".", ".", "/", ".", ".", "/", "e", "t", "c", "/", "x", ".", "p", "t">>

NameAbsolute == <<"/", "e", "t", "c", "/", "x", ".", "b", "i", "n">>

NameInnerDots == <<"a", ".", ".", "p", "t">>

NameExe == <<"m", "o", "d", "e", "l", ".", "e", "x", "e">>

NamePadded == <<" ", "a", ".", "p", "t", " ">>

NameA == <<"a", ".", "p", "t">>

NameDotDot == <<".", ".", "/", "a", ".", "p", "t">>

\* Requests of the download specification.
Urls == {UrlHuggingFace, UrlEvil}

ModelTypes == {TypeLoras}

Filenames == {NameA, NameExe}

AllModelTypes == {TypeLoras, TypeBogus}

\* Ids a status or cancel request may name: those in use and one unknown.
RequestIds == 1..(MaxDownloads + 1)

\* Content-Length values a response declares (0: the header is absent).
DeclaredSizes == {0, 1, 2, MAX_MODEL_SIZE_BYTES, MAX_MODEL_SIZE_BYTES + 1}

HttpStatuses == {200, 404}

\* Requests of the validation specification: every filename over Alphabet up
\* to MaxNameLen characters, and some longer ones.
Alphabet == {".", "/", "p", "t", "T"}

RECURSIVE Strings(_)
Strings(n) ==
    IF n = 0 THEN {EmptyStr}
    ELSE LET shorter == Strings(n - 1)
         IN  shorter \cup
             {Append(s, c) : s \in {x \in shorter : Len(x) = n - 1}, c \in Alphabet}

AllFilenames ==
    Strings(MaxNameLen) \cup
    {NameSafetensors, NameMixedCase, NamePasswd, NameTraversalPt, NameAbsolute,
     NameInnerDots, NameExe, NamePadded, NameDotDot}

AllUrls ==
    {UrlHuggingFace, UrlCivitai, UrlGithub, UrlEvil, UrlPlainHttp, UrlLookalike,
     UrlUpper, UrlPadded, UrlEmbedded}

NoRequest ==
    [url |-> EmptyStr, model_type |-> EmptyStr, filename |-> EmptyStr, code |-> None]

----------------------------------------------------------------------------
(* Specifications.                                                         *)

\* register_download_routes: a manager with no downloads.  The model
\* directory is empty, or holds a.pt from an earlier run.
Init ==
    /\ active_downloads = << >>
    /\ download_tasks = << >>
    /\ tmp_files = << >>
    /\ files \in {<< >>,
                  PathJoin(DirLoras, NameA) :> FileContent(None, 1, FALSE)}
    /\ request = NoRequest

\* POST /bagel/models/download arrives.
StartRequest ==
    \E url \in Urls, model_type \in ModelTypes, filename \in Filenames :
        /\ handle_download_model(url, model_type, filename)
        /\ Cardinality(DOMAIN active_downloads') <= MaxDownloads
        /\ UNCHANGED request

Next ==
    \/ StartRequest
    \/ \E id \in RequestIds : handle_download_status(id)
    \/ \E id \in RequestIds : handle_cancel_download(id)
    \/ \E id \in DOMAIN download_tasks, makedirs_ok \in BOOLEAN :
           TaskStart(id, makedirs_ok)
    \/ \E id \in DOMAIN download_tasks : GetRaises(id)
    \/ \E id \in DOMAIN download_tasks, status \in HttpStatuses,
          content_length \in DeclaredSizes, mkstemp_ok \in BOOLEAN :
           GetResponse(id, status, content_length, mkstemp_ok)
    \/ \E id \in DOMAIN download_tasks, write_ok \in BOOLEAN, unlink_ok \in BOOLEAN :
           Chunk(id, write_ok, unlink_ok)
    \/ \E id \in DOMAIN download_tasks : ReadRaises(id)
    \/ \E id \in DOMAIN download_tasks, outcome \in MoveOutcomes,
          copied \in 0..MaxChunks :
           EndOfBody(id, outcome, copied)
    \/ \E id \in DOMAIN download_tasks : Except(id)
    \/ \E id \in DOMAIN download_tasks, delivered \in BOOLEAN : SendReturns(id, delivered)

Spec == Init /\ [][Next]_vars

\* A step of the task of download id, whatever the environment answers.
WorkerStep(id) ==
    /\ id \in DOMAIN download_tasks
    /\ \/ \E makedirs_ok \in BOOLEAN : TaskStart(id, makedirs_ok)
       \/ GetRaises(id)
       \/ \E status \in HttpStatuses, content_length \in DeclaredSizes,
             mkstemp_ok \in BOOLEAN :
              GetResponse(id, status, content_length, mkstemp_ok)
       \/ \E write_ok \in BOOLEAN, unlink_ok \in BOOLEAN : Chunk(id, write_ok, unlink_ok)
       \/ ReadRaises(id)
       \/ \E outcome \in MoveOutcomes, copied \in 0..MaxChunks :
              EndOfBody(id, outcome, copied)
       \/ Except(id)
       \/ \E delivered \in BOOLEAN : SendReturns(id, delivered)

\* The event loop runs every task that is ready, and every network or file
\* operation a task awaits returns or raises in the end: no task waits for
\* ever at an await.
FairSpec == Spec /\ \A id \in 1..MaxDownloads : WF_vars(WorkerStep(id))

\* The validation specification: Init draws one request, and the start
\* handler is applied to it once; request.code keeps the reply's status code.
InitV ==
    /\ active_downloads = << >>
    /\ download_tasks = << >>
    /\ tmp_files = << >>
    /\ files = << >>
    /\ request \in [url : AllUrls, model_type : AllModelTypes,
                    filename : AllFilenames, code : {None}]

StartRequestV ==
    /\ request.code = None
    /\ handle_download_model(request.url, request.model_type, request.filename)
    /\ Cardinality(DOMAIN active_downloads') <= MaxDownloads
    /\ request' = [request EXCEPT !.code =
                       handle_download_model_reply(request.url, request.model_type,
                                                   request.filename).code]

NextV == StartRequestV

SpecV == InitV /\ [][NextV]_vars

\* Requests that overlap: the server accepts a POST while the task of an
\* earlier one is still running (handlers and tasks share one event loop,
\* lines 349-351), so one more record than Spec allows is in the registry.
MaxConcurrent == MaxDownloads + 1

StartRequestC ==
    \E url \in Urls, model_type \in ModelTypes, filename \in Filenames :
        /\ handle_download_model(url, model_type, filename)
        /\ Cardinality(DOMAIN active_downloads') <= MaxConcurrent
        /\ UNCHANGED request

NextC == StartRequestC \/ Next

SpecC == Init /\ [][NextC]_vars

----------------------------------------------------------------------------
(* Properties.                                                             *)

Record(id) == active_downloads[id]

Settled(id) == Record(id).status \in TerminalStatus

\* The file at a record's destination_path, if any.
Published(id) == Record(id).destination_path \in DOMAIN files

\* s begins with p, character by character.
BeginsWith(s, p) ==
    /\ Len(s) >= Len(p)
    /\ \A i \in 1..Len(p) : s[i] = p[i]

TrustedOrigin(url) == \E source \in {HUGGINGFACE, CIVITAI, GITHUB_RAW} : BeginsWith(url, source)

\* Two adjacent dots somewhere in the name.
HasDotDot(filename) ==
    \E i \in 1..(Len(filename) - 1) : filename[i] = "." /\ filename[i + 1] = "."

IsAbsolute(filename) == filename # EmptyStr /\ filename[1] = "/"

\* ext is in the allow-list when letter case is ignored.
AllowedIgnoringCase(ext) ==
    \E allowed \in ALLOWED_EXTENSIONS :
        /\ Len(allowed) = Len(ext)
        /\ \A i \in 1..Len(ext) : LowerChar(ext[i]) = LowerChar(allowed[i])

\* The request gets past the field, model type and validation tests.
PassesValidation(raw_url, raw_model_type, raw_filename) ==
    /\ Strip(raw_url) # EmptyStr
    /\ Strip(raw_filename) # EmptyStr
    /\ Strip(raw_model_type) \in DOMAIN folder_names_and_paths
    /\ validate_model_url(Strip(raw_url), Strip(raw_filename)).is_valid

DestinationOf(raw_model_type, raw_filename) ==
    PathJoin(folder_names_and_paths[Strip(raw_model_type)], Strip(raw_filename))

\* C1: once a record's status is completed, failed or cancelled, no field of
\* the record changes in any later step, and a status poll returns the same
\* snapshot before and after every later step.
C1_TerminalRecordNeverChanges ==
    [][\A id \in Ids :
           Settled(id) =>
               /\ active_downloads'[id] = active_downloads[id]
               /\ handle_download_status_reply(id)' = handle_download_status_reply(id)]_vars

\* C2: a record whose cancellation was requested (cancel_download returned
\* True while it was downloading) and which has settled without any error is
\* cancelled, not completed, and no file is at its destination_path nor is
\* its temp file in /tmp.
C2_CancelRequestedEndsCancelled ==
    \A id \in Ids :
        (Record(id).cancel_requested /\ Settled(id) /\ Record(id).status # "failed") =>
            /\ Record(id).status = "cancelled"
            /\ ~ Published(id)
            /\ id \notin DOMAIN tmp_files

\* C3: while a record is pending or downloading, and after it ended failed or
\* cancelled, no file, complete or partial, is at its destination_path.
C3_NoFileBeforeSuccess ==
    \A id \in Ids :
        Record(id).status \in {"pending", "downloading", "failed", "cancelled"} =>
            ~ Published(id)

\* C4: progress_percent is exactly 100 if and only if status is completed,
\* and it is below 100 in every other status.
C4_HundredIffCompleted ==
    \A id \in Ids :
        /\ (Record(id).progress_percent = Percent(100)) <=> (Record(id).status = "completed")
        /\ Record(id).status # "completed" =>
               ~ PctLeq(Percent(100), Record(id).progress_percent)

\* C5: no step decreases a record's progress_percent.
C5_PercentNeverDecreases ==
    [][\A id \in Ids :
           PctLeq(active_downloads[id].progress_percent,
                  active_downloads'[id].progress_percent)]_vars

\* C6: whenever a record is completed, failed or cancelled, the temp file
\* its task created is no longer in /tmp.
C6_NoTempFileAfterSettling ==
    \A id \in Ids : Settled(id) => id \notin DOMAIN tmp_files

\* C6 witness: a task that had written chunks to its temp file has failed.
C6_Witness ==
    \E id \in Ids :
        /\ Record(id).status = "failed"
        /\ Record(id).progress_bytes > 0
        /\ id \notin DOMAIN tmp_files

\* C7: a start request that passes validation while a file is at its
\* destination gets download_id null and status already_exists with that
\* destination_path; and no step adds a record or creates a task whose
\* destination_path held a file when the step was taken, so handling such a
\* request adds no record and creates no task.
C7_AlreadyExistsCreatesNothing ==
    /\ [](\A url \in Urls, model_type \in ModelTypes, filename \in Filenames :
              (/\ PassesValidation(url, model_type, filename)
               /\ DestinationOf(model_type, filename) \in DOMAIN files) =>
                  LET reply == handle_download_model_reply(url, model_type, filename)
                  IN  /\ reply.code = 200
                      /\ reply.body.download_id = None
                      /\ reply.body.status = "already_exists"
                      /\ reply.body.destination_path =
                             DestinationOf(model_type, filename))
    /\ [][\A id \in (DOMAIN active_downloads' \ DOMAIN active_downloads) \cup
                    (DOMAIN download_tasks' \ DOMAIN download_tasks) :
              active_downloads'[id].destination_path \notin DOMAIN files]_vars

\* C7 witness: a download has completed and published its file, so a start
\* request for the same model type and filename finds it.
C7_Witness ==
    \E id \in Ids :
        /\ Record(id).status = "completed"
        /\ Published(id)
        /\ PassesValidation(Record(id).url, Record(id).model_type, Record(id).filename)
        /\ handle_download_model_reply(Record(id).url, Record(id).model_type,
                                       Record(id).filename).body.status = "already_exists"

\* C8: for a URL that does not begin with a trusted origin, validation
\* rejects with the source reason whatever the filename is, the start request
\* is refused, and no record and no task (hence no fetch) exists for it.
C8_UntrustedSourceRejected ==
    LET url      == Strip(request.url)
        filename == Strip(request.filename)
        reply    == handle_download_model_reply(request.url, request.model_type,
                                                request.filename)
    IN  ~ TrustedOrigin(url) =>
            /\ ~ validate_model_url(url, filename).is_valid
            /\ validate_model_url(url, filename).error_message = ReasonSource
            /\ reply.code \in {400, 403}
            /\ request.code \in {None, 400, 403}
            /\ Ids = {}
            /\ DOMAIN download_tasks = {}

\* C8 witness: only the source rule stands against the request, and the
\* handler has refused it.
C8_Witness ==
    /\ request.code = 403
    /\ Ids = {}
    /\ request.url = UrlEvil
    /\ request.model_type = TypeLoras
    /\ request.filename = NameSafetensors
    /\ handle_download_model_reply(request.url, request.model_type,
                                   request.filename).body.error = ReasonSource

\* C9: for a filename that contains .. or starts with /, validation rejects
\* whatever the URL and the extension are (the request is any of AllUrls with
\* any of AllFilenames), and no record is ever created from such a filename.
C9_TraversalFilenameRejected ==
    LET url      == Strip(request.url)
        filename == Strip(request.filename)
    IN  /\ (HasDotDot(filename) \/ IsAbsolute(filename)) =>
               /\ ~ validate_model_url(url, filename).is_valid
               /\ Ids = {}
        /\ \A id \in Ids :
               /\ ~ HasDotDot(Record(id).filename)
               /\ ~ IsAbsolute(Record(id).filename)

\* C9 witness: a trusted URL and an allowed extension, and a filename that
\* climbs out of the model directory; the handler has refused it.
C9_Witness ==
    /\ request.code = 403
    /\ Ids = {}
    /\ request.url = UrlHuggingFace
    /\ request.model_type = TypeLoras
    /\ request.filename = NameTraversalPt
    /\ handle_download_model_reply(request.url, request.model_type,
                                   request.filename).body.error = ReasonFilename

\* C10: a filename whose extension, letter case ignored, is not in the
\* allow-list is rejected even with a trusted URL (for the file type, and no
\* record is created); one whose extension is in the allow-list in any letter
\* case is never rejected for its file type.
C10_ExtensionAllowList ==
    LET url      == Strip(request.url)
        filename == Strip(request.filename)
        verdict  == validate_model_url(url, filename)
    IN  IF AllowedIgnoringCase(SplitExt(filename))
        THEN verdict.error_message # ReasonFileType
        ELSE /\ ~ verdict.is_valid
             /\ TrustedOrigin(url) => verdict.error_message = ReasonFileType
             /\ Ids = {}

\* C10 witness: an allowed extension in mixed case was accepted.
C10_Witness ==
    /\ request.filename = NameMixedCase
    /\ request.url = UrlHuggingFace
    /\ request.code = 200
    /\ Ids # {}
    /\ Record(1).filename = NameMixedCase

\* C11: a start request with a trusted URL, a known model type and the
\* filename ../../etc/passwd is refused with the invalid-filename reason.
C11_TraversalReasonIsFilename ==
    LET reply == handle_download_model_reply(request.url, request.model_type,
                                             request.filename)
    IN  (/\ TrustedOrigin(Strip(request.url))
         /\ Strip(request.model_type) \in DOMAIN folder_names_and_paths
         /\ Strip(request.filename) = NamePasswd) =>
            /\ reply.code = 403
            /\ reply.body.error = ReasonFilename

\* C12: validate_model_url accepts exactly when the URL has a trusted origin,
\* the extension is allowed and the filename neither holds .. nor starts with
\* /; when it rejects, the reason is that of the first of these three rules
\* that fails, in this order; and the three reasons and the empty reason of an
\* acceptance are four different texts.  Checked for the request as sent and
\* as stripped by the handler.
C12_RulesInOrder ==
    /\ Cardinality({ReasonSource, ReasonFileType, ReasonFilename, ""}) = 4
    /\ \A strip \in BOOLEAN :
           LET url       == IF strip THEN Strip(request.url) ELSE request.url
               filename  == IF strip THEN Strip(request.filename) ELSE request.filename
               verdict   == validate_model_url(url, filename)
               source_ok == TrustedOrigin(url)
               type_ok   == AllowedIgnoringCase(SplitExt(filename))
               name_ok   == ~ HasDotDot(filename) /\ ~ IsAbsolute(filename)
           IN  /\ verdict.is_valid <=> (source_ok /\ type_ok /\ name_ok)
               /\ verdict.error_message =
                      IF ~ source_ok THEN ReasonSource
                      ELSE IF ~ type_ok THEN ReasonFileType
                      ELSE IF ~ name_ok THEN ReasonFilename
                      ELSE ""

\* C12 witness: the handler has refused a request that breaks the second and
\* the third rule, with the reason of the second.
C12_Witness ==
    /\ request.code = 403
    /\ request.url = UrlGithub
    /\ request.model_type = TypeLoras
    /\ HasDotDot(request.filename)
    /\ ~ AllowedIgnoringCase(SplitExt(request.filename))
    /\ validate_model_url(request.url, request.filename).error_message = ReasonFileType

\* C13: cancel_download returns True only when it newly sets the flag: for a
\* record whose cancel_requested is already set, cancel_download returns False
\* and the cancel request is answered with a failure.
C13_CancelReturnsTrueOnlyOnce ==
    \A id \in Ids :
        Record(id).cancel_requested =>
            /\ ~ cancel_download(id)
            /\ handle_cancel_download_reply(id).body.success = FALSE

\* C14: a cancel request for an unknown id or for a record that is not
\* downloading (pending, completed, failed, cancelled) is answered with a
\* failure, and handling it changes no record and no task; no pending record
\* has cancel_requested set.
C14_CancelElsewhereIsRefused ==
    /\ [](\A id \in RequestIds :
              (id \notin Ids \/ Record(id).status # "downloading") =>
                  /\ ~ cancel_download(id)
                  /\ handle_cancel_download_reply(id).code = 404
                  /\ handle_cancel_download_reply(id).body.success = FALSE)
    /\ [](\A id \in Ids :
              Record(id).status = "pending" => ~ Record(id).cancel_requested)
    /\ [][\A id \in RequestIds :
              (/\ id \notin Ids \/ Record(id).status # "downloading"
               /\ handle_cancel_download(id)) =>
                  UNCHANGED <<active_downloads, download_tasks, tmp_files, files>>]_vars

\* C14 witness: a record has completed without a cancellation; a cancel
\* request for it, and one for an id the registry does not hold, are refused.
C14_Witness ==
    \E id \in Ids, unknown \in RequestIds \ Ids :
        /\ Record(id).status = "completed"
        /\ ~ Record(id).cancel_requested
        /\ handle_cancel_download_reply(id).code = 404
        /\ handle_cancel_download_reply(unknown).code = 404

\* C15: a record whose declared total size is over MAX_MODEL_SIZE_BYTES has
\* read nothing (progress_bytes is 0), has no temp file (and none existed
\* before the size was known), has written no file at its destination_path,
\* reads no further, and ends failed with the size-limit message; a record
\* whose declared size is at most the limit never gets that message.  (A file
\* another download wrote at the same path is that download's, not this
\* one's.)
C15_OversizeFailsWithoutWriting ==
    \A id \in Ids :
        LET download == Record(id)
            task     == download_tasks[id]
        IN  /\ task.at \in {"spawned", "get"} => id \notin DOMAIN tmp_files
            /\ download.total_bytes > MAX_MODEL_SIZE_BYTES =>
                   /\ download.progress_bytes = 0
                   /\ id \notin DOMAIN tmp_files
                   /\ Published(id) => files[download.destination_path].writer # id
                   /\ task.at \in {"raised", "send_failed", "done"}
                   /\ task.raised = "Model too large"
                   /\ download.status \in {"downloading", "failed"}
                   /\ task.at \in {"send_failed", "done"} =>
                          /\ download.status = "failed"
                          /\ download.error_message = "Model too large"
            /\ download.total_bytes <= MAX_MODEL_SIZE_BYTES =>
                   /\ download.error_message # "Model too large"
                   /\ task.raised # "Model too large"

\* C15 witness: the task of a download whose response declared more than the
\* limit has returned.
C15_Witness ==
    \E id \in Ids :
        /\ Record(id).total_bytes = MAX_MODEL_SIZE_BYTES + 1
        /\ Record(id).status = "failed"
        /\ download_tasks[id].at = "done"

C17_StartRepliesPending ==
    /\ [](\A url \in Urls, model_type \in ModelTypes, filename \in Filenames :
              (/\ PassesValidation(url, model_type, filename)
               /\ DestinationOf(model_type, filename) \notin DOMAIN files) =>
                  LET reply == handle_download_model_reply(url, model_type, filename)
                  IN  /\ reply.code = 200
                      /\ reply.body.download_id # None
                      /\ reply.body.download_id \notin Ids
                      /\ reply.body.status = "pending"
                      /\ reply.body.destination_path =
                             DestinationOf(model_type, filename))
    /\ [][\A id \in DOMAIN active_downloads' \ Ids :
              LET download == active_downloads'[id]
                  reply    == handle_download_model_reply(download.url,
                                  download.model_type, download.filename)
              IN  /\ DOMAIN active_downloads' = Ids \cup {id}
                  /\ DOMAIN download_tasks' = DOMAIN download_tasks \cup {id}
                  /\ download.status = "pending"
                  /\ download_tasks'[id].at = "spawned"
                  /\ reply.body.download_id = id
                  /\ reply.body.status = download.status
                  /\ reply.body.destination_path = download.destination_path
                  /\ \A other \in Ids :
                         /\ active_downloads'[other] = active_downloads[other]
                         /\ download_tasks'[other] = download_tasks[other]]_vars

\* C17 witness: a start request was accepted and its task has not run yet; a
\* status poll shows the record pending.
C17_Witness ==
    \E id \in Ids :
        /\ Record(id).status = "pending"
        /\ download_tasks[id] = Spawned
        /\ handle_download_status_reply(id).body.status = "pending"

\* C18: a download whose cancellation was requested after its start (the
\* request was accepted: cancel_requested is set) is in the end seen cancelled
\* by a status poll, when no task waits for ever; a transfer that an error
\* ends first is let off, it may be seen failed.
C18_CancelAfterStartEndsCancelled ==
    \A id \in 1..MaxDownloads :
        (id \in Ids /\ Record(id).cancel_requested)
            ~> (/\ id \in Ids
                /\ handle_download_status_reply(id).body.status \in {"cancelled", "failed"})

\* C19: a status poll for an id of the registry is answered 200 with every
\* field of the record at its current value and nothing else; a poll for an
\* unknown id is answered 404 "Download not found"; and handling a poll
\* changes no record, no task and no file.
C19_PollReturnsRecord ==
    /\ [](\A id \in RequestIds :
              LET reply == handle_download_status_reply(id)
              IN  IF id \in Ids
                  THEN /\ reply.code = 200
                       /\ DOMAIN reply.body = DOMAIN Record(id)
                       /\ \A field \in DOMAIN Record(id) :
                              reply.body[field] = Record(id)[field]
                  ELSE /\ reply.code = 404
                       /\ reply.body.error = "Download not found")
    /\ [][\A id \in RequestIds :
              handle_download_status(id) =>
                  UNCHANGED <<active_downloads, download_tasks, tmp_files, files>>]_vars

\* C19 witness: a record half-way through its body is polled, and so is an
\* id the registry does not hold.
C19_Witness ==
    \E id \in Ids, unknown \in RequestIds \ Ids :
        /\ Record(id).status = "downloading"
        /\ Record(id).progress_bytes > 0
        /\ handle_download_status_reply(id).body.progress_bytes = Record(id).progress_bytes
        /\ handle_download_status_reply(unknown).code = 404

\* C20: in every step the status of every record stays as it is, or goes from
\* pending to downloading, or from downloading to completed, failed or
\* cancelled; a task that fails before its first await (lines 148-152 and
\* 234-235 run without an await between them) is counted as having passed
\* through downloading.
C20_StatusOnlyMovesForward ==
    [][\A id \in Ids :
           LET before == active_downloads[id].status
               after  == active_downloads'[id].status
           IN  \/ after = before
               \/ before = "pending" /\ after \in {"downloading", "failed"}
               \/ before = "downloading" /\ after \in TerminalStatus]_vars

\* C21: a completed record has progress_bytes equal to total_bytes,
\* progress_percent 100, no temp file, and the whole body at its
\* destination_path; stated for the responses that declare no size
\* (Content-Length absent, total_bytes 0).
C21_CompletedCountsMatch ==
    \A id \in Ids :
        (Record(id).status = "completed" /\ Record(id).total_bytes = 0) =>
            /\ Record(id).progress_bytes = Record(id).total_bytes
            /\ Record(id).progress_percent = Percent(100)
            /\ id \notin DOMAIN tmp_files
            /\ Published(id)

\* C22: when the GET is answered with a status other than 200 the task
\* raises "HTTP <status>: <reason>" without touching the record, the temp
\* files or the model directories; the outer handler then records that text
\* and sets failed; and a record with that error message is failed, has read
\* nothing, has no temp file and has written no file at its destination_path.
C22_HttpErrorFailsWithoutWriting ==
    /\ [](\A id \in Ids :
              (\/ Record(id).error_message = "HTTP 404: Not Found"
               \/ download_tasks[id].raised = "HTTP 404: Not Found") =>
                  /\ Record(id).progress_bytes = 0
                  /\ Record(id).total_bytes = 0
                  /\ id \notin DOMAIN tmp_files
                  /\ Published(id) =>
                         files[Record(id).destination_path].writer # id
                  /\ Record(id).status \in {"downloading", "failed"}
                  /\ download_tasks[id].at \in {"send_failed", "done"} =>
                         /\ Record(id).status = "failed"
                         /\ Record(id).error_message = "HTTP 404: Not Found")
    /\ [][\A id \in DOMAIN download_tasks :
              (/\ download_tasks[id].at = "get"
               /\ \E content_length \in DeclaredSizes, mkstemp_ok \in BOOLEAN :
                      GetResponse(id, 404, content_length, mkstemp_ok)) =>
                  /\ download_tasks'[id].at = "raised"
                  /\ download_tasks'[id].raised = "HTTP 404: Not Found"
                  /\ UNCHANGED <<active_downloads, tmp_files, files>>]_vars

\* C22 witness: the task of a download whose GET was answered 404 has
\* returned.
C22_Witness ==
    \E id \in Ids :
        /\ Record(id).status = "failed"
        /\ Record(id).error_message = "HTTP 404: Not Found"
        /\ download_tasks[id].at = "done"

\* C23: after a chunk was written, a progress notification is published
\* exactly when progress_percent is at least 5 above last_progress_percent
\* (0 before the first one), which then takes that value; and every progress
\* notification is published at a progress_percent of at most 100, so that a
\* download publishes at most 20 of them however many chunks it has.
C23_ProgressEveryFivePoints ==
    [][\A id \in DOMAIN download_tasks :
           LET before  == download_tasks[id]
               after   == download_tasks'[id]
               last    == before.last_progress_percent
               percent == active_downloads'[id].progress_percent
               emitted == after.at = "send_progress"
           IN  (/\ before.at = "iter"
                /\ active_downloads'[id].progress_bytes =
                       active_downloads[id].progress_bytes + 1) =>
                   /\ emitted <=>
                          percent.n * last.d - last.n * percent.d >=
                              5 * percent.d * last.d
                   /\ emitted =>
                          /\ after.last_progress_percent = percent
                          /\ percent.n <= 100 * percent.d
                   /\ ~ emitted => after.last_progress_percent = last]_vars

\* C24: the step that gives a record a terminal status publishes a
\* notification carrying that status (the task is left awaiting the send of
\* lines 190, 232 or 240), whose progress_percent is not below that of the
\* last progress notification; and after that send the task publishes
\* nothing more: it returns.
C24_OneFinalNotification ==
    [][\A id \in Ids :
           LET before == active_downloads[id]
               after  == active_downloads'[id]
               sends  == [cancelled |-> "send_cancelled",
                          completed |-> "send_completed",
                          failed    |-> "send_failed"]
           IN  /\ (after.status \in TerminalStatus /\ after.status # before.status) =>
                      /\ download_tasks'[id].at = sends[after.status]
                      /\ PctLeq(download_tasks'[id].last_progress_percent,
                                after.progress_percent)
               /\ (/\ download_tasks[id].at \in
                          {"send_cancelled", "send_completed", "send_failed"}
                   /\ download_tasks'[id] # download_tasks[id]) =>
                      download_tasks'[id].at = "done"]_vars

C26_CancelStopsWriting ==
    [][\A id \in Ids :
           active_downloads[id].cancel_requested =>
               /\ active_downloads'[id].cancel_requested
               /\ active_downloads'[id].progress_bytes = active_downloads[id].progress_bytes
               /\ id \in DOMAIN tmp_files' =>
                      tmp_files'[id] = IF id \in DOMAIN tmp_files THEN tmp_files[id] ELSE 0
               /\ (/\ download_tasks[id].at = "iter"
                   /\ download_tasks'[id] # download_tasks[id]) =>
                      download_tasks'[id].at \notin {"iter", "send_progress"}]_vars

\* C26 witness: a download that had written a chunk was cancelled at the
\* arrival of the next one.
C26_Witness ==
    \E id \in Ids :
        /\ Record(id).status = "cancelled"
        /\ Record(id).cancel_requested
        /\ Record(id).progress_bytes > 0
        /\ id \notin DOMAIN tmp_files
        /\ download_tasks[id].raised = ""

C28_TimestampsSetOnce ==
    /\ [](\A id \in Ids :
              /\ Record(id).completed_at # "" <=> Settled(id)
              /\ Record(id).error_message # "" => Record(id).status = "failed"
              /\ Record(id).started_at # "")
    /\ [][\A id \in Ids :
              /\ active_downloads[id].completed_at # "" =>
                     /\ ~ Except(id)
                     /\ active_downloads'[id].status = active_downloads[id].status
              /\ active_downloads[id].error_message # "" => ~ Except(id)
              /\ active_downloads'[id].started_at = active_downloads[id].started_at]_vars

\* C29: no two records with the same destination_path are pending or
\* downloading at the same time, and no step replaces or removes a file that
\* is in a model directory.
C29_OneTransferPerDestination ==
    /\ [](\A a, b \in Ids :
              (a # b /\ Record(a).destination_path = Record(b).destination_path) =>
                  ~ (/\ Record(a).status \in {"pending", "downloading"}
                     /\ Record(b).status \in {"pending", "downloading"}))
    /\ [][\A path \in DOMAIN files :
              path \in DOMAIN files' /\ files'[path] = files[path]]_vars

====
